---- MODULE Spec2Model ----
(***************************************************************************)
(* Model of worker/src/queue.rs: MessageBatch<T>, MessageIter<T> and       *)
(* parse_message.  A batch holds the host's Array of message entries; an   *)
(* iterator is a Range<u32> cursor over that array which decodes one entry *)
(* per step, from either end.  The target type T is the struct { x: int }. *)
(***************************************************************************)
EXTENDS Integers, Sequences, FiniteSets, TLC

\* Largest number of entries in a host-delivered batch.
MaxLen == 3

\* The iterator handles a handler holds on one batch: iter() may be called
\* again at any time, and the claims about several iterators are pairwise.
IterIds == {1, 2}

(***************************************************************************)
(* JavaScript values, as far as parse_message can tell them apart.         *)
(***************************************************************************)
Undefined == [t |-> "undefined", n |-> 0, s |-> ""]
Str(s)    == [t |-> "string", n |-> 0, s |-> s]
Num(n)    == [t |-> "number", n |-> n, s |-> ""]
DateV(n)  == [t |-> "date", n |-> n, s |-> ""]
\* The object { x: n }.
ObjX(n)   == [t |-> "object", n |-> n, s |-> "x"]

\* What stands in an entry for a property that cannot be read: its getter (or
\* the get trap of a proxy) throws.
Throws    == [t |-> "throws", n |-> 0, s |-> ""]

\* A message entry that is an object; a field the object lacks reads as
\* undefined, and a field that is Throws raises an exception when it is read.
Entry(ts, id, body) == [isObject |-> TRUE, timestamp |-> ts, id |-> id, body |-> body]
\* An entry that is no object at all (undefined, null, a primitive).
NonObject == [isObject |-> FALSE, timestamp |-> Undefined, id |-> Undefined, body |-> Undefined]

TIMESTAMP_KEY_STR == "timestamp"
ID_KEY_STR == "id"
BODY_KEY_STR == "body"

\* The entries a host may deliver whose fields can all be read: well-formed
\* ones and every malformation of a value parse_message tells apart.
Entries ==
    { Entry(DateV(1), Str("a"), ObjX(1)),
      Entry(DateV(2), Str("b"), ObjX(2)),
      Entry(DateV(1), Undefined, ObjX(1)),
      Entry(DateV(2), Num(7), ObjX(2)),
      Entry(DateV(1), Undefined, Str("not-an-x")),
      Entry(DateV(2), Str("b"), Str("not-an-x")),
      Entry(Undefined, Str("a"), ObjX(1)),
      Entry(Str("soon"), Str("b"), ObjX(2)),
      Entry(DateV(1), Str("a"), Undefined),
      NonObject }

\* The entries a host may deliver on which reading a field is what matters: a
\* field is there, is absent, or throws when read, alone and together with
\* another fault of the entry.
AccessEntries ==
    { Entry(DateV(1), Str("a"), ObjX(1)),
      Entry(Undefined, Str("a"), ObjX(1)),
      Entry(DateV(1), Str("a"), Undefined),
      Entry(Throws, Str("a"), ObjX(1)),
      Entry(DateV(2), Throws, ObjX(2)),
      Entry(DateV(1), Str("a"), Throws),
      Entry(Throws, Undefined, Str("not-an-x")),
      Entry(DateV(2), Num(7), Throws),
      NonObject }

\* The entries of the batches two iterators are interleaved on.
IterEntries ==
    { Entry(DateV(1), Str("a"), ObjX(1)),
      Entry(DateV(2), Str("b"), ObjX(2)),
      Entry(DateV(2), Str("b"), Str("not-an-x")) }

(***************************************************************************)
(* Results: Result<Message<T>> and Option<Result<Message<T>>>.             *)
(***************************************************************************)
Ok(id, body, timestamp) ==
    [tag |-> "Ok", id |-> id, body |-> body, timestamp |-> timestamp, err |-> ""]
Err(e) ==
    [tag |-> "Err", id |-> "", body |-> 0, timestamp |-> Undefined, err |-> e]

\* The errors of parse_message, named by the place that raises them.
\* ok_or(Error::JsError("Invalid message batch. Failed to get id from message."))?
MissingIdentifierError == "MissingIdentifierError"
\* Reflect::get(..)?: the exception a failed field read raised, as an Error.
FieldAccessError == "FieldAccessError"
\* from_value(..)?: the serde_wasm_bindgen error, as an Error.
DeserializationError == "DeserializationError"

\* Mutant: a field read that also fails on a property the object lacks.
Reflect_get_strict(target, key) ==
    LET val == CASE key = TIMESTAMP_KEY_STR -> target.timestamp
                 [] key = ID_KEY_STR -> target.id
                 [] key = BODY_KEY_STR -> target.body
    IN  IF ~target.isObject \/ val.t \in {"throws", "undefined"}
        THEN [ok |-> FALSE, val |-> Undefined]
        ELSE [ok |-> TRUE, val |-> val]

\* js_sys::Reflect::get(target, key): Err with the exception when target is
\* not an object or when reading the property throws; a property the object
\* lacks reads as undefined.
Reflect_get(target, key) ==
    LET val == CASE key = TIMESTAMP_KEY_STR -> target.timestamp
                 [] key = ID_KEY_STR -> target.id
                 [] key = BODY_KEY_STR -> target.body
    IN  IF ~target.isObject \/ val.t = "throws"
        THEN [ok |-> FALSE, val |-> Undefined]
        ELSE [ok |-> TRUE, val |-> val]

\* Mutant: a conversion that also turns a number into a string.
as_string_coercing(v) ==
    [some |-> v.t \in {"string", "number"}, s |-> IF v.t = "string" THEN v.s ELSE "7"]

\* JsValue::as_string: Some for a JS string, None for anything else.
as_string(v) == [some |-> v.t = "string", s |-> v.s]

\* Mutant: a deserializer that defaults what it cannot decode.
from_value_defaulting(v) == [ok |-> TRUE, x |-> v.n]

\* serde_wasm_bindgen::from_value::<T> for T = struct { x: int }.
from_value(v) ==
    IF v.t = "object" /\ v.s = "x"
    THEN [ok |-> TRUE, x |-> v.n]
    ELSE [ok |-> FALSE, x |-> 0]

\* Mutant: a conversion that replaces whatever is not a date.
Date_from_checked(v) == IF v.t = "date" THEN v ELSE DateV(0)

\* js_sys::Date::from(JsValue) and Date::from(js_sys::Date): unchecked wrappers.
Date_from(v) == v

\* Mutant: a decoder that decodes the body before it looks at the id.
parse_message_bodyFirst(message) ==
    LET ts == Reflect_get(message, TIMESTAMP_KEY_STR)
        idv == Reflect_get(message, ID_KEY_STR)
        id == as_string(idv.val)
        bodyv == Reflect_get(message, BODY_KEY_STR)
        body == from_value(bodyv.val)
    IN  IF ~ts.ok THEN Err(FieldAccessError)
        ELSE IF ~bodyv.ok THEN Err(FieldAccessError)
        ELSE IF ~body.ok THEN Err(DeserializationError)
        ELSE IF ~idv.ok THEN Err(FieldAccessError)
        ELSE IF ~id.some THEN Err(MissingIdentifierError)
        ELSE Ok(id.s, body.x, Date_from(ts.val))

parse_message(message) ==
    LET ts == Reflect_get(message, TIMESTAMP_KEY_STR)
        idv == Reflect_get(message, ID_KEY_STR)
        id == as_string(idv.val)
        bodyv == Reflect_get(message, BODY_KEY_STR)
        body == from_value(bodyv.val)
    IN  IF ~ts.ok THEN Err(FieldAccessError)
        ELSE IF ~idv.ok THEN Err(FieldAccessError)
        ELSE IF ~id.some THEN Err(MissingIdentifierError)
        ELSE IF ~bodyv.ok THEN Err(FieldAccessError)
        ELSE IF ~body.ok THEN Err(DeserializationError)
        ELSE Ok(id.s, body.x, Date_from(ts.val))

\* The steps parse_message executes on an entry, in order, up to the `?`
\* that returns.
parse_trace(message) ==
    LET ts == Reflect_get(message, TIMESTAMP_KEY_STR)
        idv == Reflect_get(message, ID_KEY_STR)
        id == as_string(idv.val)
        bodyv == Reflect_get(message, BODY_KEY_STR)
    IN  IF ~ts.ok THEN <<"get timestamp">>
        ELSE IF ~idv.ok \/ ~id.some THEN <<"get timestamp", "get id">>
        ELSE IF ~bodyv.ok THEN <<"get timestamp", "get id", "get body">>
        ELSE <<"get timestamp", "get id", "get body", "decode body">>

\* js_sys::Array::get(index), 0-based; undefined past the end.
Array_get(array, index) ==
    IF index >= 0 /\ index < Len(array) THEN array[index + 1] ELSE NonObject

(***************************************************************************)
(* The iterator: a Range<u32> [low, high) over the array.                  *)
(***************************************************************************)
None == [some |-> FALSE, item |-> Err("")]
Some(item) == [some |-> TRUE, item |-> item]

\* Mutant: a forward step that yields the front index without advancing.
Range_next_stuck(range) ==
    IF range.low < range.high
    THEN [some |-> TRUE, index |-> range.low, range |-> range]
    ELSE [some |-> FALSE, index |-> 0, range |-> range]

\* Range<u32>::next
Range_next(range) ==
    IF range.low < range.high
    THEN [some |-> TRUE, index |-> range.low,
          range |-> [low |-> range.low + 1, high |-> range.high]]
    ELSE [some |-> FALSE, index |-> 0, range |-> range]

\* Mutant: a backward step that yields the index before decrementing it.
Range_next_back_offByOne(range) ==
    IF range.low < range.high
    THEN [some |-> TRUE, index |-> range.high,
          range |-> [low |-> range.low, high |-> range.high - 1]]
    ELSE [some |-> FALSE, index |-> 0, range |-> range]

\* Mutant: a backward step guarded by <= instead of <, as long as there is
\* an index below high.
Range_next_back_inclusive(range) ==
    IF range.low <= range.high /\ range.high > 0
    THEN [some |-> TRUE, index |-> range.high - 1,
          range |-> [low |-> range.low, high |-> range.high - 1]]
    ELSE [some |-> FALSE, index |-> 0, range |-> range]

\* Range<u32>::next_back
Range_next_back(range) ==
    IF range.low < range.high
    THEN [some |-> TRUE, index |-> range.high - 1,
          range |-> [low |-> range.low, high |-> range.high - 1]]
    ELSE [some |-> FALSE, index |-> 0, range |-> range]

\* Mutant: a fresh range that ends one past the last entry.
iter_pastEnd(array) == [low |-> 0, high |-> Len(array) + 1]

\* MessageBatch::iter: the range of a fresh iterator.
iter(array) == [low |-> 0, high |-> Len(array)]

\* Mutant: a forward step that gives up the rest of the batch on a decode error.
next_abortOnErr(range, array) ==
    LET r == Range_next(range)
        item == parse_message(Array_get(array, r.index))
    IN  IF ~r.some
        THEN [range |-> r.range, read |-> FALSE, index |-> 0, ret |-> None]
        ELSE [range |-> IF item.tag = "Err"
                        THEN [low |-> range.high, high |-> range.high]
                        ELSE r.range,
              read |-> TRUE, index |-> r.index, ret |-> Some(item)]

\* MessageIter::next: the new range, the index read and the value returned.
next(range, array) ==
    LET r == Range_next(range)
    IN  IF ~r.some
        THEN [range |-> r.range, read |-> FALSE, index |-> 0, ret |-> None]
        ELSE [range |-> r.range, read |-> TRUE, index |-> r.index,
              ret |-> Some(parse_message(Array_get(array, r.index)))]

\* MessageIter::next_back
next_back(range, array) ==
    LET r == Range_next_back(range)
    IN  IF ~r.some
        THEN [range |-> r.range, read |-> FALSE, index |-> 0, ret |-> None]
        ELSE [range |-> r.range, read |-> TRUE, index |-> r.index,
              ret |-> Some(parse_message(Array_get(array, r.index)))]

\* Mutant: a length that forgets the front of the range.
size_hint_fromZero(range) == <<range.high, range.high>>

\* MessageIter::size_hint (Range<u32>::size_hint): (len, Some(len)).
size_hint(range) ==
    LET len == IF range.low < range.high THEN range.high - range.low ELSE 0
    IN  <<len, len>>

(***************************************************************************)
(* State.                                                                  *)
(***************************************************************************)
VARIABLES
    messages,  \* MessageBatch.messages: the host's Array of entries
    iters,     \* iters[i]: [live, range] of iterator handle i
    out,       \* out[i]: the items iterator i has yielded, in order,
               \*         each with the call and the index it came from
    ret,       \* the last call: [op, it, read, val, size, name]
    inner,     \* MessageBatch.inner: the host's batch object [queue, retryAll]
    retry_calls, \* how many times the handler has called retry_all()
    sends,     \* sends[c]: the c-th call of Queue::send: [value, pc, result]
    transport  \* the host transport: the submissions made, each [call, payload, state]

vars == <<messages, iters, out, ret, inner, retry_calls, sends, transport>>

\* What the calls on a batch and its iterators leave alone.
producer == <<sends, transport>>

NoRange == [low |-> 0, high |-> 0]
Call(op, it, r, size) ==
    [op |-> op, it |-> it, read |-> r.read, val |-> r.ret, size |-> size, name |-> ""]
NoRead == [read |-> FALSE, ret |-> None]

BatchesOf(E) == UNION { [1..n -> E] : n \in 0..MaxLen }

\* The names of the queues a batch may come from.
QueueNames == {"orders", "emails"}

\* The host's batch object for a batch of queue q: nothing marked for retry yet.
MessageBatchSys(q) == [queue |-> q, retryAll |-> FALSE]

\* MessageBatch::new(message_batch_sys) for a batch of queue q over entries of E.
InitOf(E, q) ==
    /\ messages \in BatchesOf(E)
    /\ iters = [i \in IterIds |-> [live |-> FALSE, range |-> NoRange]]
    /\ out = [i \in IterIds |-> <<>>]
    /\ ret = Call("new", 0, NoRead, <<0, 0>>)
    /\ inner = MessageBatchSys(q)
    /\ retry_calls = 0
    /\ sends = <<>>
    /\ transport = <<>>

InitOn(E) == InitOf(E, "orders")

\* MessageBatch::new over a batch of IterEntries.
Init == InitOn(IterEntries)

\* let it = batch.iter();  (handle i is bound to a fresh iterator)
Call_iter(i) ==
    /\ ~iters[i].live
    /\ iters' = [iters EXCEPT ![i] = [live |-> TRUE, range |-> iter(messages)]]
    /\ out' = [out EXCEPT ![i] = <<>>]
    /\ ret' = Call("iter", i, NoRead, <<0, 0>>)
    /\ UNCHANGED <<messages, inner, retry_calls, producer>>

\* The record of what iterator i has yielded, after a step returned r.
Yield(i, op, r) ==
    IF r.ret.some
    THEN [out EXCEPT ![i] = Append(@, [op |-> op, index |-> r.index, item |-> r.ret.item])]
    ELSE out

\* Largest number of retry_all() calls a handler makes on one batch.
MaxRetryCalls == 2

\* The host's MessageBatch.queue: the name of the queue the batch came from.
MessageBatchSys_queue(b) == b.queue

\* The host's MessageBatch.retryAll(): marks the batch for redelivery; the mark
\* is consulted when the handler has returned.
MessageBatchSys_retry_all(b) == [b EXCEPT !.retryAll = TRUE]

\* MessageBatch::queue
queue(b) == MessageBatchSys_queue(b)

\* Mutant: a retry_all that does not reach the host.
retry_all_noop(b) == b

\* MessageBatch::retry_all
retry_all(b) == MessageBatchSys_retry_all(b)

\* Mutant: a queue() that forwards to the host's retryAll.
Call_queue_marking ==
    /\ inner' = MessageBatchSys_retry_all(inner)
    /\ ret' = [Call("queue", 0, NoRead, <<0, 0>>) EXCEPT !.name = inner.queue]
    /\ UNCHANGED <<messages, iters, out, retry_calls, producer>>

\* batch.queue()
Call_queue ==
    /\ ret' = [Call("queue", 0, NoRead, <<0, 0>>) EXCEPT !.name = queue(inner)]
    /\ UNCHANGED <<messages, iters, out, inner, retry_calls, producer>>

\* batch.retry_all()
Call_retry_all ==
    /\ retry_calls < MaxRetryCalls
    /\ inner' = retry_all(inner)
    /\ retry_calls' = retry_calls + 1
    /\ ret' = Call("retry_all", 0, NoRead, <<0, 0>>)
    /\ UNCHANGED <<messages, iters, out, producer>>

\* Mutant: a forward step on a cursor that the iterators of a batch share.
Call_next_shared(i) ==
    /\ iters[i].live
    /\ LET r == next(iters[i].range, messages)
       IN  /\ iters' = [j \in IterIds |->
                           IF iters[j].live THEN [iters[j] EXCEPT !.range = r.range]
                                            ELSE iters[j]]
           /\ out' = Yield(i, "next", r)
           /\ ret' = Call("next", i, r, <<0, 0>>)
    /\ UNCHANGED <<messages, inner, retry_calls, producer>>

\* it.next()
Call_next(i) ==
    /\ iters[i].live
    /\ LET r == next(iters[i].range, messages)
       IN  /\ iters' = [iters EXCEPT ![i].range = r.range]
           /\ out' = Yield(i, "next", r)
           /\ ret' = Call("next", i, r, <<0, 0>>)
    /\ UNCHANGED <<messages, inner, retry_calls, producer>>

\* it.next_back()
Call_next_back(i) ==
    /\ iters[i].live
    /\ LET r == next_back(iters[i].range, messages)
       IN  /\ iters' = [iters EXCEPT ![i].range = r.range]
           /\ out' = Yield(i, "next_back", r)
           /\ ret' = Call("next_back", i, r, <<0, 0>>)
    /\ UNCHANGED <<messages, inner, retry_calls, producer>>

\* Mutant: a length found by counting, which consumes the iterator.
Call_size_hint_consuming(i) ==
    /\ iters[i].live
    /\ ret' = Call("size_hint", i, NoRead, size_hint(iters[i].range))
    /\ iters' = [iters EXCEPT ![i].range = [low |-> @.high, high |-> @.high]]
    /\ UNCHANGED <<messages, out, inner, retry_calls, producer>>

\* it.size_hint() / it.len()
Call_size_hint(i) ==
    /\ iters[i].live
    /\ ret' = Call("size_hint", i, NoRead, size_hint(iters[i].range))
    /\ UNCHANGED <<messages, iters, out, inner, retry_calls, producer>>

\* A handler holding two iterator handles on one batch, stepping them in any order.
Next ==
    \E i \in IterIds :
        \/ Call_iter(i)
        \/ Call_next(i)
        \/ Call_next_back(i)
        \/ Call_size_hint(i)

Spec == Init /\ [][Next]_vars

\* MessageBatch::new over a batch of any Entries, traversed by one iterator.
InitDecode == InitOn(Entries)

NextDecode ==
    \/ Call_iter(1)
    \/ Call_next(1)
    \/ Call_next_back(1)
    \/ Call_size_hint(1)

SpecDecode == InitDecode /\ [][NextDecode]_vars

\* MessageBatch::new over a batch some of whose entries cannot be read, on
\* which the handler uses one iterator.
InitAccess == InitOn(AccessEntries)

NextAccess ==
    \/ Call_iter(1)
    \/ Call_next(1)
    \/ Call_next_back(1)
    \/ Call_size_hint(1)

SpecAccess == InitAccess /\ [][NextAccess]_vars
\* MessageBatch::new over a batch of some queue, on which the handler uses one
\* iterator, asks for the queue name and marks the batch for retry, in any order.
InitBatch == \E q \in QueueNames : InitOf(IterEntries, q)

NextBatch ==
    \/ Call_iter(1)
    \/ Call_next(1)
    \/ Call_next_back(1)
    \/ Call_size_hint(1)
    \/ Call_queue
    \/ Call_retry_all

SpecBatch == InitBatch /\ [][NextBatch]_vars

(***************************************************************************)
(* The producer: Queue::send.                                              *)
(***************************************************************************)
\* Largest number of send calls issued on one producer.
MaxSends == 3

\* The values of T handed to send: the struct { x: n }, and a value whose
\* Serialize implementation fails.
RustX(n) == [encodable |-> TRUE, x |-> n]
Unencodable == [encodable |-> FALSE, x |-> 0]
SendValues == { RustX(1), RustX(2), Unencodable }

SerializationError == "SerializationError"
TransportError == "TransportError"

\* serde_wasm_bindgen::to_value: the struct { x: n } becomes the object { x: n }.
to_value(v) ==
    IF v.encodable THEN [ok |-> TRUE, js |-> ObjX(v.x)] ELSE [ok |-> FALSE, js |-> Undefined]

\* The host's Queue.send(payload) for call c: one more submission, whose
\* promise is pending.
EdgeQueue_send(t, c, payload) ==
    Append(t, [call |-> c, payload |-> payload, state |-> "pending"])

\* A send call that returned without suspending, and one suspended on the
\* promise of submission k.
Returned(v, result) == [value |-> v, pc |-> "done", result |-> result, sub |-> 0]
Awaiting(v, k) == [value |-> v, pc |-> "awaiting", result |-> "", sub |-> k]

\* Mutant: a send that hands the payload to the host before it looks at the
\* result of the encoding.
Call_send_submitFirst(v) ==
    /\ Len(sends) < MaxSends
    /\ LET js == to_value(v)
           c == Len(sends) + 1
       IN  /\ transport' = EdgeQueue_send(transport, c, js.js)
           /\ sends' = Append(sends, IF js.ok THEN Awaiting(v, Len(transport) + 1)
                                               ELSE Returned(v, SerializationError))
    /\ UNCHANGED <<messages, iters, out, ret, inner, retry_calls>>

\* queue.send(&v), up to its return or its suspension at fut.await.
Call_send(v) ==
    /\ Len(sends) < MaxSends
    /\ LET js == to_value(v)
           c == Len(sends) + 1
       IN  IF ~js.ok
           THEN /\ sends' = Append(sends, Returned(v, SerializationError))
                /\ UNCHANGED transport
           ELSE /\ transport' = EdgeQueue_send(transport, c, js.js)
                /\ sends' = Append(sends, Awaiting(v, Len(transport) + 1))
    /\ UNCHANGED <<messages, iters, out, ret, inner, retry_calls>>

\* The host acknowledges submission k: its promise resolves.
Host_resolve(k) ==
    /\ transport[k].state = "pending"
    /\ transport' = [transport EXCEPT ![k].state = "resolved"]
    /\ UNCHANGED <<messages, iters, out, ret, inner, retry_calls, sends>>

\* The host rejects submission k: its promise rejects.
Host_reject(k) ==
    /\ transport[k].state = "pending"
    /\ transport' = [transport EXCEPT ![k].state = "rejected"]
    /\ UNCHANGED <<messages, iters, out, ret, inner, retry_calls, sends>>

\* fut.await.map_err(Error::from)?; Ok(())
Result_of(state) == IF state = "resolved" THEN "Ok" ELSE TransportError

\* Mutant: a send that submits again when the host rejected.
Resume_send_retrying(c) ==
    /\ c \in DOMAIN sends
    /\ sends[c].pc = "awaiting"
    /\ transport[sends[c].sub].state # "pending"
    /\ IF transport[sends[c].sub].state = "rejected" /\ Len(transport) < 2 * MaxSends
       THEN /\ transport' = EdgeQueue_send(transport, c, transport[sends[c].sub].payload)
            /\ sends' = [sends EXCEPT ![c].sub = Len(transport) + 1]
       ELSE /\ sends' = [sends EXCEPT ![c].pc = "done",
                                      ![c].result = Result_of(transport[sends[c].sub].state)]
            /\ UNCHANGED transport
    /\ UNCHANGED <<messages, iters, out, ret, inner, retry_calls>>

\* Mutant: a send that does not wait for the host's reply.
Resume_send_eager(c) ==
    /\ c \in DOMAIN sends
    /\ sends[c].pc = "awaiting"
    /\ sends' = [sends EXCEPT ![c].pc = "done",
                              ![c].result = IF transport[sends[c].sub].state = "rejected"
                                            THEN TransportError ELSE "Ok"]
    /\ UNCHANGED <<messages, iters, out, ret, inner, retry_calls, transport>>

\* Mutant: a send woken by the reply to any submission of the producer.
Resume_send_anyReply(c) ==
    /\ c \in DOMAIN sends
    /\ sends[c].pc = "awaiting"
    /\ \E k \in DOMAIN transport :
           /\ transport[k].state # "pending"
           /\ sends' = [sends EXCEPT ![c].pc = "done",
                                     ![c].result = Result_of(transport[k].state)]
    /\ UNCHANGED <<messages, iters, out, ret, inner, retry_calls, transport>>

\* The task of call c is woken when its promise has settled, and send returns.
Resume_send(c) ==
    /\ c \in DOMAIN sends
    /\ sends[c].pc = "awaiting"
    /\ transport[sends[c].sub].state # "pending"
    /\ sends' = [sends EXCEPT ![c].pc = "done",
                              ![c].result = Result_of(transport[sends[c].sub].state)]
    /\ UNCHANGED <<messages, iters, out, ret, inner, retry_calls, transport>>

\* A producer with no batch at hand.
InitSend == InitOf({}, "orders")

NextSend ==
    \/ \E v \in SendValues : Call_send(v)
    \/ \E k \in DOMAIN transport : Host_resolve(k)
    \/ \E k \in DOMAIN transport : Host_reject(k)
    \/ \E c \in 1..MaxSends : Resume_send(c)

SpecSend == InitSend /\ [][NextSend]_vars

\* The executor polls a task again once the promise it awaits has settled.
SpecSendFair == SpecSend /\ \A c \in 1..MaxSends : WF_vars(Resume_send(c))

(***************************************************************************)
(* Vocabulary of the properties.                                           *)
(***************************************************************************)
N == Len(messages)
Low(i) == iters[i].range.low
High(i) == iters[i].range.high
Live(i) == iters[i].live
Exhausted(i) == Live(i) /\ Low(i) = High(i)
Indices(i) == { out[i][k].index : k \in DOMAIN out[i] }
OnlyBy(i, op) == \A k \in DOMAIN out[i] : out[i][k].op = op
\* The entry a yielded item came from.
EntryOf(y) == messages[y.index + 1]

\* A field of an object entry that can be read: reading it does not throw.
CanRead(v) == v.t # "throws"

\* An entry with a timestamp that can be read, a string id and a body that is
\* an { x: int }.
WellFormed(e) ==
    /\ e.isObject
    /\ CanRead(e.timestamp)
    /\ e.id.t = "string"
    /\ e.body.t = "object" /\ e.body.s = "x"
\* The message a well-formed entry carries, read off its fields.
Decoded(e) ==
    [tag |-> "Ok", id |-> e.id.s, body |-> e.body.n, timestamp |-> e.timestamp, err |-> ""]
AllWellFormed == \A k \in 1..N : WellFormed(messages[k])

\* C1: on a batch of N entries that all decode, an iterator driven only by
\* next() has yielded, as its k-th item, Ok of entry k-1, never more than N
\* items, and is told end-of-sequence only after N items; one driven only by
\* next_back() has yielded, as its k-th item, Ok of entry N-k, likewise.
C1_OrderedTraversal ==
    \A i \in IterIds :
        (Live(i) /\ AllWellFormed) =>
            /\ Len(out[i]) <= N
            /\ OnlyBy(i, "next") =>
                   \A k \in DOMAIN out[i] : out[i][k].item = Decoded(messages[k])
            /\ OnlyBy(i, "next_back") =>
                   \A k \in DOMAIN out[i] : out[i][k].item = Decoded(messages[N + 1 - k])
            /\ (ret.it = i /\ ret.op \in {"next", "next_back"} /\ ~ret.val.some) =>
                   Len(out[i]) = N
            /\ Len(out[i]) = N => Low(i) = High(i)

\* Iterator 1 went forward and iterator 2 backward over three well-formed
\* entries, not all equal, and both have been told end-of-sequence or are done.
C1_Witness ==
    /\ N = 3 /\ AllWellFormed /\ messages[1] # messages[3]
    /\ Len(out[1]) = 3 /\ OnlyBy(1, "next")
    /\ Len(out[2]) = 3 /\ OnlyBy(2, "next_back")
    /\ out[2][1].item = Decoded(messages[3])
    /\ ret.op = "next" /\ ret.it = 1 /\ ~ret.val.some

\* C2: under every interleaving of next() and next_back() no entry index is
\* yielded twice, only indices of the batch are yielded, the iterator is
\* exhausted exactly when it has yielded N items, and by then every index
\* 0..N-1 has been yielded.
C2_EachIndexOnce ==
    \A i \in IterIds :
        Live(i) =>
            /\ \A j, k \in DOMAIN out[i] : j # k => out[i][j].index # out[i][k].index
            /\ Indices(i) \subseteq 0..(N - 1)
            /\ Exhausted(i) <=> Len(out[i]) = N
            /\ Exhausted(i) => Indices(i) = 0..(N - 1)

\* An iterator exhausted over three entries by steps of both directions.
C2_Witness ==
    \E i \in IterIds :
        /\ N = 3 /\ Exhausted(i) /\ Len(out[i]) = 3
        /\ out[i][1].op = "next_back" /\ out[i][2].op = "next" /\ out[i][3].op = "next_back"

\* C3: a step whose entry fails to decode yields an Err for that slot and
\* moves the cursor by one slot like any other step (items yielded plus slots
\* remaining is always N, so exhaustion comes after exactly N steps); every
\* slot's result depends on its own entry alone: a well-formed entry yields
\* its message whatever the other entries are, a malformed one an Err.
C3_FaultIsolation ==
    Live(1) =>
        /\ Len(out[1]) + (High(1) - Low(1)) = N
        /\ Exhausted(1) => Len(out[1]) = N
        /\ \A k \in DOMAIN out[1] :
               LET e == EntryOf(out[1][k])
               IN  /\ WellFormed(e) => out[1][k].item = Decoded(e)
                   /\ ~WellFormed(e) => out[1][k].item.tag = "Err"
        /\ (ret.op \in {"next", "next_back"} /\ ret.val.some) =>
               ret.val.item = out[1][Len(out[1])].item

\* A three-entry batch traversed to the end in which malformed entries yielded
\* Err first and a well-formed entry yielded Ok after them.
C3_Witness ==
    /\ N = 3 /\ Exhausted(1) /\ Len(out[1]) = 3
    /\ out[1][1].item.tag = "Err" /\ out[1][2].item.tag = "Err"
    /\ out[1][3].item.tag = "Ok"
    /\ out[1][1].op # out[1][2].op
\* C4: an entry (an object whose timestamp and id can be read) whose id is
\* absent or not a string yields the missing-identifier error for its slot,
\* whichever direction reached it, while every well-formed entry of the same
\* batch still yields its message.
C4_MissingIdentifier ==
    \A k \in DOMAIN out[1] :
        LET y == out[1][k]
            e == EntryOf(y)
        IN  /\ (/\ e.isObject /\ CanRead(e.timestamp) /\ CanRead(e.id)
                 /\ e.id.t # "string") => y.item = Err(MissingIdentifierError)
            /\ WellFormed(e) => (y.item.tag = "Ok" /\ y.item.id = e.id.s)

\* [no id, well-formed, numeric id]: slot 0 reached by next(), slot 2 by
\* next_back(), both missing-identifier errors, and slot 1 decoded after them.
C4_Witness ==
    /\ N = 3 /\ Len(out[1]) = 3
    /\ messages[1].isObject /\ messages[1].id.t = "undefined"
    /\ messages[3].isObject /\ messages[3].id.t = "number"
    /\ WellFormed(messages[2])
    /\ out[1][1].op = "next" /\ out[1][1].item.err = MissingIdentifierError
    /\ out[1][2].op = "next_back" /\ out[1][2].item.err = MissingIdentifierError
    /\ out[1][3].item.tag = "Ok"

ExampleBatch ==
    << Entry(DateV(1), Str("a"), ObjX(1)), Entry(DateV(2), Str("b"), Str("not-an-x")) >>
ItemsOf(i) == [k \in DOMAIN out[i] |-> out[i][k].item]

\* C5: an entry with a string id whose body, read from the entry, is no
\* { x: int } yields the deserialization error for its slot and changes no
\* other slot (every well-formed entry still yields its message); the batch
\* [well-formed a, bad-body b] yields [Ok(a), Err] forward and [Err, Ok(a)]
\* backward.
C5_Deserialization ==
    /\ \A k \in DOMAIN out[1] :
           LET y == out[1][k]
               e == EntryOf(y)
           IN  /\ (/\ e.isObject /\ CanRead(e.timestamp) /\ e.id.t = "string"
                    /\ CanRead(e.body) /\ ~WellFormed(e)) =>
                      y.item = Err(DeserializationError)
               /\ WellFormed(e) => (y.item.tag = "Ok" /\ y.item.body = e.body.n)
    /\ (messages = ExampleBatch /\ Len(out[1]) = 2) =>
           /\ OnlyBy(1, "next") =>
                  ItemsOf(1) = << Ok("a", 1, DateV(1)), Err(DeserializationError) >>
           /\ OnlyBy(1, "next_back") =>
                  ItemsOf(1) = << Err(DeserializationError), Ok("a", 1, DateV(1)) >>

\* The example batch traversed backward to the end.
C5_Witness ==
    /\ messages = ExampleBatch
    /\ Len(out[1]) = 2 /\ OnlyBy(1, "next_back")
    /\ out[1][1].item.err = DeserializationError /\ out[1][2].item.tag = "Ok"

AbsentField(v) == v.t = "undefined"

\* C6 as stated: every entry whose timestamp field or body field is absent
\* yields the generic field-access error.
C6_AbsentFieldIsFieldAccessError ==
    \A k \in DOMAIN out[1] :
        LET e == EntryOf(out[1][k])
        IN  (AbsentField(e.timestamp) \/ AbsentField(e.body)) =>
                out[1][k].item = Err(FieldAccessError)

\* The entries on which a field read that parse_message reaches fails: the
\* entry is not an object, or reading its timestamp throws, or reading its id
\* throws, or (the id being a string) reading its body throws.
ReadFails(e) ==
    \/ ~e.isObject
    \/ ~CanRead(e.timestamp)
    \/ ~CanRead(e.id)
    \/ e.id.t = "string" /\ ~CanRead(e.body)

\* C6 amended: an entry on which the read of the timestamp, the id or the
\* body fails (the entry is not an object, or reading the field throws; for
\* the body, once the id was read as a string) yields the generic
\* field-access error for its slot; an object merely lacking its timestamp is
\* not rejected for that, and an object with a string id merely lacking its
\* body yields the deserialization error.
C6_FieldAccess ==
    \A k \in DOMAIN out[1] :
        LET y == out[1][k]
            e == EntryOf(y)
        IN  /\ ReadFails(e) => y.item = Err(FieldAccessError)
            /\ (WellFormed(e) /\ AbsentField(e.timestamp)) =>
                   (y.item.tag = "Ok" /\ AbsentField(y.item.timestamp))
            /\ (/\ e.isObject /\ CanRead(e.timestamp) /\ e.id.t = "string"
                /\ AbsentField(e.body)) => y.item = Err(DeserializationError)

\* A traversal that met an object whose body getter throws, an object
\* without timestamp and an object without body.
C6_Witness ==
    /\ N = 3 /\ Len(out[1]) = 3
    /\ \E k \in 1..3 :
           /\ EntryOf(out[1][k]) = Entry(DateV(1), Str("a"), Throws)
           /\ out[1][k].item.err = FieldAccessError
    /\ \E k \in 1..3 :
           /\ EntryOf(out[1][k]).isObject /\ AbsentField(EntryOf(out[1][k]).timestamp)
           /\ out[1][k].item.tag = "Ok"
    /\ \E k \in 1..3 :
           /\ EntryOf(out[1][k]).isObject /\ AbsentField(EntryOf(out[1][k]).body)
           /\ out[1][k].item.err = DeserializationError

\* Two entries that differ at most in the timestamp value they supply.
SameButTimestamp(e, f) ==
    /\ e.isObject = f.isObject /\ e.id = f.id /\ e.body = f.body
    /\ CanRead(e.timestamp) /\ CanRead(f.timestamp)

\* C7: whatever its timestamp value, an entry with a string id and a body
\* that is an { x: int } decodes to Ok carrying that very timestamp value;
\* two entries that differ in the timestamp value alone never differ in
\* outcome.
C7_TimestampAccepted ==
    \A k \in DOMAIN out[1] :
        LET y == out[1][k]
            e == EntryOf(y)
        IN  /\ WellFormed(e) => y.item = Decoded(e)
            /\ \A l \in DOMAIN out[1] :
                   SameButTimestamp(e, EntryOf(out[1][l])) =>
                       (y.item.tag = out[1][l].item.tag /\ y.item.err = out[1][l].item.err)

\* A traversal that decoded an entry without timestamp and one whose
\* timestamp is a string that is no date.
C7_Witness ==
    /\ \E k \in DOMAIN out[1] :
           out[1][k].item.tag = "Ok" /\ out[1][k].item.timestamp = Undefined
    /\ \E k \in DOMAIN out[1] :
           out[1][k].item.tag = "Ok" /\ out[1][k].item.timestamp = Str("soon")
\* What iter() has just returned, and what full traversals yield.
C8_FreshAndSame ==
    /\ ret.op = "iter" =>
           /\ iters[ret.it].range = [low |-> 0, high |-> N]
           /\ out[ret.it] = <<>>
    /\ \A i \in IterIds : Exhausted(i) => Indices(i) = 0..(N - 1)
    /\ \A i, j \in IterIds : \A k \in DOMAIN out[i] : \A l \in DOMAIN out[j] :
           out[i][k].index = out[j][l].index => out[i][k].item = out[j][l].item

\* A step by one iterator leaves every other iterator as it was.
C8_OthersUnchanged ==
    \A i \in IterIds :
        ret'.it # i => (iters'[i] = iters[i] /\ out'[i] = out[i])

\* C8: every iter(), whenever it is called, returns an iterator over the
\* full range 0..N that has yielded nothing; every full traversal yields
\* every slot, and any two iterators yield the same result for the same slot;
\* under every interleaving a call on one iterator changes neither the range
\* nor the yielded items of the other.
C8_IndependentIterators == []C8_FreshAndSame /\ [][C8_OthersUnchanged]_vars

\* iter() called when another iterator of the batch was half consumed, after
\* which that other iterator still has its own range.
C8_Witness ==
    /\ N = 3 /\ ret.op = "iter" /\ ret.it = 2
    /\ Len(out[1]) = 2 /\ High(1) - Low(1) = 1
    /\ High(2) - Low(2) = 3

\* C9: at every point size_hint is (high - low, Some(high - low)), which is N
\* minus the number of items yielded so far, Err items included; it is N
\* right after iter() and 0 exactly when the iterator is exhausted.
C9_ExactSizeHint ==
    /\ \A i \in IterIds :
           Live(i) =>
               /\ size_hint(iters[i].range) = <<High(i) - Low(i), High(i) - Low(i)>>
               /\ size_hint(iters[i].range) = <<N - Len(out[i]), N - Len(out[i])>>
               /\ size_hint(iters[i].range)[1] = 0 <=> Exhausted(i)
    /\ ret.op = "size_hint" => ret.size = <<N - Len(out[ret.it]), N - Len(out[ret.it])>>
    /\ ret.op = "iter" => size_hint(iters[ret.it].range) = <<N, N>>

\* size_hint answered 1 on an iterator over three entries that had yielded
\* one item from each end, an Err among them.
C9_Witness ==
    /\ N = 3 /\ ret.op = "size_hint" /\ ret.size = <<1, 1>>
    /\ Len(out[ret.it]) = 2
    /\ out[ret.it][1].op # out[ret.it][2].op
    /\ \E k \in 1..2 : out[ret.it][k].item.tag = "Err"

\* What any step does to an iterator that is exhausted.
C10_StaysExhausted ==
    \A i \in IterIds :
        Exhausted(i) =>
            /\ iters'[i] = iters[i]
            /\ out'[i] = out[i]
            /\ (ret'.it = i /\ ret'.op \in {"next", "next_back"}) =>
                   (~ret'.val.some /\ ~ret'.read)

\* C10: once low = high, every later next() and next_back() returns
\* end-of-sequence, reads no entry and leaves the range unchanged; the
\* iterator never yields again.
C10_ExhaustionIsTerminal == [][C10_StaysExhausted]_vars

\* next_back() was called on an iterator already exhausted over three
\* entries and returned end-of-sequence.
C10_Witness ==
    \E i \in IterIds :
        /\ N = 3 /\ Exhausted(i) /\ Len(out[i]) = 3
        /\ out[i][3].op = "next"
        /\ ret.it = i /\ ret.op = "next_back" /\ ~ret.val.some
\* The host's batch object once retry_all() has been called on it once.
MarkedOnce == [queue |-> inner.queue, retryAll |-> TRUE]

\* A retry_all() after the first changes nothing, and none changes what the
\* handler can observe of the batch and its iterators.
C11_CallChangesNothingElse ==
    ret'.op = "retry_all" =>
        /\ retry_calls >= 1 => inner' = inner
        /\ messages' = messages /\ iters' = iters /\ out' = out
        /\ inner'.queue = inner.queue

\* C11: after N >= 1 calls of retry_all(), however interleaved with iterator
\* steps, the host's batch object is what it is after one call; a call after
\* the first changes nothing, and no call changes the entries, the queue name
\* or any iterator.
C11_RetryAllIdempotent ==
    [](retry_calls >= 1 => inner = MarkedOnce) /\ [][C11_CallChangesNothingElse]_vars

\* retry_all() called a second time, between iterator steps.
C11_Witness ==
    /\ retry_calls = 2 /\ ret.op = "retry_all" /\ inner.retryAll
    /\ N = 3 /\ Len(out[1]) = 2 /\ High(1) - Low(1) = 1

\* C12 as stated: the retry outcome the host finds is the one of a batch on
\* which retry_all() was never called, however often it was called.
C12_SameOutcomeForAnyCount ==
    inner.retryAll = MessageBatchSys(inner.queue).retryAll

\* C12 amended: one call and many calls give the same outcome, the batch
\* marked for retry; zero calls give the other outcome, the batch not marked.
C12_OutcomeByCalls ==
    /\ retry_calls = 0 => ~inner.retryAll
    /\ retry_calls >= 1 => inner.retryAll

\* A batch marked after one call, and the handler has gone on to other calls.
C12_Witness ==
    /\ retry_calls = 1 /\ inner.retryAll
    /\ ret.op = "queue" /\ Exhausted(1) /\ N = 2

\* What each call leaves alone.
C18_FrameOfCall ==
    /\ ret'.op \in {"iter", "next", "next_back", "size_hint", "queue"} =>
           (messages' = messages /\ inner' = inner)
    /\ ret'.op \in {"iter", "next", "next_back"} =>
           \A i \in IterIds : ret'.it # i => (iters'[i] = iters[i] /\ out'[i] = out[i])
    /\ ret'.op \in {"size_hint", "queue"} => (iters' = iters /\ out' = out)
    /\ ret'.op = "retry_all" =>
           /\ messages' = messages /\ inner'.queue = inner.queue
           /\ iters' = iters /\ out' = out

\* What a traversal yields, whether or not retry_all() was called.
C18_TraversalIntact ==
    /\ Live(1) => Len(out[1]) + (High(1) - Low(1)) = N
    /\ \A k \in DOMAIN out[1] :
           LET e == EntryOf(out[1][k])
           IN  out[1][k].item = IF WellFormed(e) THEN Decoded(e)
                                ELSE Err(DeserializationError)
    /\ ret.op = "queue" => ret.name = inner.queue

\* C18: iter(), next(), next_back(), size_hint() and queue() leave the
\* entries, their number, the queue name and the retry marker unchanged, and
\* a step changes the range of its own iterator only; retry_all() changes
\* only the retry marker; a traversal yields all N entries with the same
\* results after retry_all() as without it.
C18_Frame == []C18_TraversalIntact /\ [][C18_FrameOfCall]_vars

\* A batch of queue "emails" marked for retry before its traversal was
\* finished, traversed to the end, and then asked for its queue name.
C18_Witness ==
    /\ N = 3 /\ retry_calls = 1 /\ inner.retryAll
    /\ Exhausted(1) /\ Len(out[1]) = 3
    /\ ret.op = "queue" /\ ret.name = "emails"
AllSteps == <<"get timestamp", "get id", "get body", "decode body">>
StepsOf(e) == { parse_trace(e)[k] : k \in DOMAIN parse_trace(e) }

\* C19: parse_message reads timestamp, then id, then body, and returns at the
\* first failure: an entry with a missing or non-string id and a body that is
\* no { x: int } yields the missing-identifier error, never the
\* deserialization error, and its body is neither read nor decoded.
C19_DecodePrecedence ==
    \A k \in DOMAIN out[1] :
        LET y == out[1][k]
            e == EntryOf(y)
            steps == parse_trace(e)
        IN  /\ steps = SubSeq(AllSteps, 1, Len(steps))
            /\ steps = AllSteps <=> (y.item.tag = "Ok" \/ y.item.err = DeserializationError)
            /\ (/\ e.isObject /\ CanRead(e.timestamp) /\ CanRead(e.id)
                /\ e.id.t # "string" /\ ~WellFormed(e)) =>
                   /\ y.item = Err(MissingIdentifierError)
                   /\ StepsOf(e) = {"get timestamp", "get id"}
            /\ y.item.err = DeserializationError => e.id.t = "string"
            /\ ~e.isObject => (y.item = Err(FieldAccessError) /\ steps = <<"get timestamp">>)

\* An entry with neither an id nor a decodable body, reached from the back,
\* yielded the missing-identifier error.
C19_Witness ==
    \E k \in DOMAIN out[1] :
        /\ EntryOf(out[1][k]) = Entry(DateV(1), Undefined, Str("not-an-x"))
        /\ out[1][k].op = "next_back"
        /\ out[1][k].item.err = MissingIdentifierError

\* The range of every iterator lies within the batch, and so does every
\* index read.
C20_RangeWithinBatch ==
    \A i \in IterIds :
        Live(i) =>
            /\ 0 <= Low(i) /\ Low(i) <= High(i) /\ High(i) <= N
            /\ \A k \in DOMAIN out[i] : 0 <= out[i][k].index /\ out[i][k].index < N

\* low never decreases and high never increases.
C20_RangeNarrows ==
    \A i \in IterIds :
        Live(i) => (Low(i) <= Low(i)' /\ High(i)' <= High(i))

\* C20: for every iterator in every reachable state 0 <= low <= high <= N;
\* low never decreases and high never increases; every index read by next()
\* or next_back() lies in [0, N).
C20_CursorInvariant == []C20_RangeWithinBatch /\ [][C20_RangeNarrows]_vars

\* An iterator over three entries narrowed from both ends to [1, 2), whose
\* last step read the last entry.
C20_Witness ==
    \E i \in IterIds :
        /\ N = 3 /\ Low(i) = 1 /\ High(i) = 2
        /\ ret.it = i /\ ret.op = "next_back" /\ ret.read
        /\ out[i][2].index = 2
(***************************************************************************)
(* Vocabulary of the properties of send.                                   *)
(***************************************************************************)
Calls == DOMAIN sends
Encoded == { c \in Calls : sends[c].value.encodable }
SubmissionsOf(c) == { k \in DOMAIN transport : transport[k].call = c }
\* The step is a new send call.
NewCall == Len(sends') = Len(sends) + 1

\* A send of a value that cannot be encoded returns at once and submits nothing.
C13_NoSubmissionByFailedCall ==
    (NewCall /\ ~sends'[Len(sends')].value.encodable) =>
        /\ transport' = transport
        /\ sends'[Len(sends')].pc = "done"
        /\ sends'[Len(sends')].result = SerializationError

\* C13: when the value cannot be encoded, send returns SerializationError
\* without a submission to the host and without suspending: no submission is
\* ever that call's, and the call leaves the submissions as they were.
C13_SerializationErrorIsLocal ==
    /\ [](\A c \in Calls :
              ~sends[c].value.encodable =>
                  /\ sends[c].pc = "done" /\ sends[c].result = SerializationError
                  /\ SubmissionsOf(c) = {})
    /\ [][C13_NoSubmissionByFailedCall]_vars

\* A send of an unencodable value returned while an earlier send was
\* suspended on the only submission made.
C13_Witness ==
    /\ Len(sends) = 2 /\ Len(transport) = 1
    /\ sends[1].pc = "awaiting"
    /\ ~sends[2].value.encodable /\ sends[2].result = SerializationError

\* C14: every send whose value encodes makes exactly one submission, and a
\* send makes none otherwise, so the submissions are as many as the calls
\* that encoded; a send whose submission the host rejected returns
\* TransportError and submits nothing more.
C14_OneSubmissionPerCall ==
    /\ Len(transport) = Cardinality(Encoded)
    /\ \A c \in Encoded : Cardinality(SubmissionsOf(c)) = 1
    /\ \A c \in Encoded :
           (sends[c].pc = "done" /\ \E k \in SubmissionsOf(c) : transport[k].state = "rejected")
               => sends[c].result = TransportError

\* Three sends, one of a value that does not encode, one rejected by the host
\* and returned: two submissions in all.
C14_Witness ==
    /\ Len(sends) = 3 /\ Len(transport) = 2
    /\ \E c \in Calls : ~sends[c].value.encodable
    /\ \E c \in Calls : sends[c].pc = "done" /\ sends[c].result = TransportError

\* The host's reply to the submission call c is suspended on.
ReplyTo(c) == transport[sends[c].sub].state

\* A suspended send has made its submission and has no result; a returned one
\* has the result the host's reply gives.
C15_ResultFollowsReply ==
    \A c \in Encoded :
        /\ sends[c].sub \in SubmissionsOf(c)
        /\ sends[c].pc = "awaiting" => sends[c].result = ""
        /\ sends[c].pc = "done" =>
               /\ ReplyTo(c) # "pending"
               /\ sends[c].result = "Ok" <=> ReplyTo(c) = "resolved"
               /\ sends[c].result = TransportError <=> ReplyTo(c) = "rejected"

\* C15: a send that has submitted its payload does not return before the host
\* resolves or rejects that submission; it returns Ok exactly when the host
\* acknowledged and an error exactly when the host rejected; once the host
\* has replied, the send eventually returns.
C15_SendAwaitsReply ==
    /\ []C15_ResultFollowsReply
    /\ \A c \in 1..MaxSends :
           (c \in Encoded /\ ReplyTo(c) # "pending") ~> (c \in Calls /\ sends[c].pc = "done")

\* One send returned Ok and another an error, while a third is still
\* suspended on a submission the host has not replied to.
C15_Witness ==
    /\ Len(sends) = 3
    /\ \E c \in Calls : sends[c].pc = "done" /\ sends[c].result = "Ok"
    /\ \E c \in Calls : sends[c].pc = "done" /\ sends[c].result = TransportError
    /\ \E c \in Encoded : sends[c].pc = "awaiting" /\ ReplyTo(c) = "pending"

\* Every submission carries the payload of its own call, and every returned
\* call has the result of the reply to its own submission.
C17_OwnSubmission ==
    /\ \A k \in DOMAIN transport :
           /\ transport[k].call \in Encoded
           /\ from_value(transport[k].payload).x = sends[transport[k].call].value.x
    /\ \A c \in Encoded :
           sends[c].pc = "done" =>
               \A k \in SubmissionsOf(c) : sends[c].result = Result_of(transport[k].state)

\* A step changes one call at most, a reply changes no call, and a new call
\* changes neither an earlier call nor an earlier submission.
C17_OthersUntouched ==
    /\ \A c, d \in Calls : (sends'[c] # sends[c] /\ d # c) => sends'[d] = sends[d]
    /\ \A c \in Calls : sends'[c] # sends[c] => transport' = transport
    /\ NewCall =>
           /\ \A c \in Calls : sends'[c] = sends[c]
           /\ \A k \in DOMAIN transport : transport'[k] = transport[k]

\* C17: with several sends in flight, in whatever order the host replies,
\* each call's result is the reply to its own submission and each submission
\* carries its own call's payload; a reply to one call changes no other call,
\* and a send changes nothing of the calls and submissions before it.
C17_IndependentSends == []C17_OwnSubmission /\ [][C17_OthersUntouched]_vars

\* Three sends in flight together: the last was acknowledged and the first
\* rejected, both returned, while the second still waits.
C17_Witness ==
    /\ Len(sends) = 3 /\ Len(transport) = 3
    /\ sends[1].result = TransportError
    /\ sends[2].pc = "awaiting" /\ transport[sends[2].sub].state = "pending"
    /\ sends[3].result = "Ok"
====
